---- MODULE Spec2Model ----
(***************************************************************************)
(* A model of the r3k holdings-extraction engine:                          *)
(*   src/r3k/parse_new_ncsr.py  (the "modern" parser, parser = "new")      *)
(*   src/r3k/parse_old_ncsr.py  (the "legacy" parser, parser = "old")      *)
(*                                                                         *)
(* Text is a sequence of atoms.  An atom is one character where the code   *)
(* looks at characters (digits, ",", "-", whitespace, the \x96 / \x97      *)
(* dashes) and one word where it only looks at words (sector names, the    *)
(* fund name).  Python's None is the text NoneText, which no cell holds.   *)
(***************************************************************************)
EXTENDS Integers, Sequences, FiniteSets, TLC

VARIABLES
    parser,             \* "new" | "old": the parse_filing that runs (cli.parser_map)
    pc,                 \* position in parse_filing
    npages,             \* len(pages): number of relevant pages
    pages,              \* the pages read so far: [title, etf_name, report_date, ntables, heading]
    version,            \* get_subversion(pages[0]) (modern)
    f_i,                \* parse_filing: index of the page being parsed
    f_results,          \* parse_filing: results
    f_current_sector,   \* parse_filing: current_sector
    f_header,           \* parse_filing (legacy): header
    p_header,           \* parse_holdings_page: header
    p_current_sector,   \* parse_holdings_page: current_sector
    p_hit,              \* parse_holdings_page: hit_total_common_stocks
    p_holdings,         \* parse_holdings_page: holdings
    p_sector_totals,    \* parse_holdings_page: sector_totals
    p_ncols,            \* parse_holdings_page: len(extract_holdings_columns(..)); legacy: len(tables)
    p_i,                \* index of the column being parsed in its page
    c_sector_totals,    \* parse_holdings_column: sector_totals
    c_records,          \* parse_holdings_column: records
    c_hit,              \* parse_holdings_column: hit_total_common_stocks
    c_current_sector,   \* parse_holdings_column: current_sector
    result,             \* what parse_filing returned
    scanned,            \* history: the rows the row loops have classified, in document order
    heads,              \* history: the leading rows the header validation consumed
    stopped,            \* history: a terminating row was classified, or a column ended with the flag raised
    late,               \* history: rows, columns and pages read after stopped
    arg,                \* input of the pure function under test
    out                 \* its output

vars == <<parser, pc, npages, pages, version, f_i, f_results, f_current_sector, f_header,
          p_header, p_current_sector, p_hit, p_holdings, p_sector_totals, p_ncols, p_i,
          c_sector_totals, c_records, c_hit, c_current_sector,
          result, scanned, heads, stopped, late, arg, out>>

machine == <<parser, pc, npages, pages, version, f_i, f_results, f_current_sector, f_header,
             p_header, p_current_sector, p_hit, p_holdings, p_sector_totals, p_ncols, p_i,
             c_sector_totals, c_records, c_hit, c_current_sector,
             result, scanned, heads, stopped, late>>

----------------------------------------------------------------------------
(* Bounds *)

MaxPages == 2
MaxRows == 4
MaxLen == 3

----------------------------------------------------------------------------
(* Text *)

NBSP == "<xa0>"
X92 == "<x92>"
X96 == "<x96>"
X97 == "<x97>"
EMDASH == "<u2014>"
AMPNBSP == "&nbsp;"
CONTINUED == "(continued)"
DASHES == "---"
NoneText == <<"<None>">>

Whitespace == {" ", NBSP, "<nl>"}
Digits == {"0", "1", "2", "3", "4", "5", "6", "7", "8", "9"}

Range(s) == {s[i] : i \in 1..Len(s)}
SetMin(S) == CHOOSE x \in S : \A y \in S : x <= y
SetMax(S) == CHOOSE x \in S : \A y \in S : x >= y

DigitVal(a) ==
    CASE a = "0" -> 0 [] a = "1" -> 1 [] a = "2" -> 2 [] a = "3" -> 3 [] a = "4" -> 4
      [] a = "5" -> 5 [] a = "6" -> 6 [] a = "7" -> 7 [] a = "8" -> 8 [] a = "9" -> 9

\* str.lower(), on the words the model uses
Lower(a) ==
    CASE a \in {"iShares(R)", "iSHARES(R)"} -> "ishares(r)"
      [] a \in {"iShares", "iSHARES"} -> "ishares"
      [] a \in {"Russell", "RUSSELL"} -> "russell"
      [] a \in {"Index", "INDEX"} -> "index"
      [] a \in {"Fund", "FUND"} -> "fund"
      [] a = "ETF" -> "etf"
      [] a = "II" -> "ii"
      [] a \in {"Schedule", "SCHEDULE"} -> "schedule"
      [] a \in {"Summary", "SUMMARY"} -> "summary"
      [] a \in {"Of", "OF"} -> "of"
      [] a \in {"Investments", "INVESTMENTS"} -> "investments"
      [] a \in {"Common", "COMMON"} -> "common"
      [] a \in {"Stocks", "STOCKS"} -> "stocks"
      [] a \in {"Stock", "STOCK"} -> "stock"
      [] a \in {"Total", "TOTAL"} -> "total"
      [] a = "A" -> "a" [] a = "B" -> "b" [] a = "C" -> "c"
      [] a = "D" -> "d" [] a = "E" -> "e" [] a = "F" -> "f"
      [] OTHER -> a

LowerText(s) == [i \in 1..Len(s) |-> Lower(s[i])]

RemoveAtoms(s, S) == SelectSeq(s, LAMBDA a : a \notin S)
ReplaceAtom(s, a, b) == [i \in 1..Len(s) |-> IF s[i] = a THEN b ELSE s[i]]

\* str.strip()
Strip(s) ==
    LET idx == {i \in 1..Len(s) : s[i] \notin Whitespace}
    IN  IF idx = {} THEN <<>> ELSE SubSeq(s, SetMin(idx), SetMax(idx))

RECURSIVE DropWhitespace(_)
DropWhitespace(s) ==
    IF s # <<>> /\ s[1] \in Whitespace THEN DropWhitespace(Tail(s)) ELSE s

\* re.sub(r"\s+", " ", val)
RECURSIVE CollapseWhitespace(_)
CollapseWhitespace(s) ==
    IF s = <<>> THEN <<>>
    ELSE IF s[1] \in Whitespace THEN <<" ">> \o CollapseWhitespace(DropWhitespace(s))
    ELSE <<s[1]>> \o CollapseWhitespace(Tail(s))

\* the part of s before the last atom sep: sep.join(s.split(sep)[:-1])
BeforeLast(s, sep) ==
    SubSeq(s, 1, SetMax({i \in 1..Len(s) : s[i] = sep}) - 1)

scrub_text(val) ==
    ReplaceAtom(CollapseWhitespace(ReplaceAtom(val, NBSP, " ")), X92, "'")

scrub_tag(text) == Strip(scrub_text(Strip(text)))

empty_tag(text) == scrub_tag(text) = <<>>

\* the cells of a row that are neither empty nor "$", scrubbed but not stripped
parse_row(row) ==
    LET kept == SelectSeq(row, LAMBDA td : scrub_tag(td) \notin {<<>>, <<"$">>})
    IN  [i \in 1..Len(kept) |-> scrub_text(kept[i])]

\* re.match("[0-9]+", ...): the text begins with a digit
is_int(val) ==
    LET scrubbed == scrub_text(RemoveAtoms(val, {","}))
    IN  scrubbed # <<>> /\ scrubbed[1] \in Digits

\* Python's int(str): an optional sign and one or more digits
IntLiteral(s) ==
    LET body == IF s # <<>> /\ s[1] \in {"+", "-"} THEN Tail(s) ELSE s
    IN  body # <<>> /\ \A i \in 1..Len(body) : body[i] \in Digits

RECURSIVE DigitsValue(_)
DigitsValue(s) ==
    IF s = <<>> THEN 0 ELSE 10 * DigitsValue(SubSeq(s, 1, Len(s) - 1)) + DigitVal(s[Len(s)])

IntOf(s) ==
    IF s[1] = "-" THEN 0 - DigitsValue(Tail(s))
    ELSE IF s[1] = "+" THEN DigitsValue(Tail(s))
    ELSE DigitsValue(s)

Placeholders == {<<X96>>, <<X97>>, <<"(", "e", ")">>, <<"(", "f", ")">>}

IntVal(n) == [tag |-> "int", v |-> n]
NoneVal == [tag |-> "None", v |-> 0]
ValueError == [tag |-> "ValueError", v |-> 0]

\* val.strip().replace(",", "") and re.sub("\s+", "", val)
CleanNumber(val) == RemoveAtoms(RemoveAtoms(Strip(val), {","}), Whitespace)

parse_int(val) ==
    LET v == CleanNumber(val)
    IN  IF v \in Placeholders THEN NoneVal
        ELSE IF IntLiteral(v) THEN IntVal(IntOf(v))
        ELSE ValueError

normalize_sector_new(sector) ==
    LET a == Strip(RemoveAtoms(sector, {CONTINUED}))
        b == IF DASHES \in Range(a) THEN Strip(BeforeLast(a, DASHES)) ELSE a
    IN  Strip(b)

normalize_sector_old(sector) ==
    LET a == Strip(RemoveAtoms(sector, {CONTINUED}))
        b == ReplaceAtom(ReplaceAtom(a, X96, DASHES), X97, DASHES)
        c == ReplaceAtom(ReplaceAtom(b, AMPNBSP, " "), EMDASH, DASHES)
        d == IF DASHES \in Range(c) THEN Strip(BeforeLast(c, DASHES))
             ELSE IF " " \in Range(c) THEN Strip(BeforeLast(c, " "))
             ELSE c
    IN  Strip(d)

\* re.match(".*common.*stock", s, re.DOTALL | re.IGNORECASE)
MatchesCommonStock(s) ==
    \E i \in 1..Len(s) : \E j \in i + 1..Len(s) :
        Lower(s[i]) = "common" /\ Lower(s[j]) \in {"stock", "stocks"}

\* re.match(".*common stocks.*", text, re.IGNORECASE | re.DOTALL)
MatchesCommonStocksLabel(s) ==
    \E i \in 1..Len(s) - 2 :
        Lower(s[i]) = "common" /\ s[i + 1] = " " /\ Lower(s[i + 2]) = "stocks"

----------------------------------------------------------------------------
(* Values of the program *)

\* dict: a function on its keys
EmptyDict == <<>>
DictSet(d, k, v) == [x \in (DOMAIN d) \cup {k} |-> IF x = k THEN v ELSE d[x]]
\* {**a, **b}
DictMerge(a, b) == [x \in (DOMAIN a) \cup (DOMAIN b) |-> IF x \in DOMAIN b THEN b[x] ELSE a[x]]
DictPop(d, k) == [x \in (DOMAIN d) \ {k} |-> d[x]]

TotalCommonStocks == <<"Total", " ", "Common", " ", "Stocks">>

\* pd.Timestamp(report_date): the dates the model's pages print
Timestamp(text) ==
    CASE text = <<"2010-03-31">> -> [ok |-> TRUE, ts |-> 20100331]
      [] text = <<"March 31, 2010">> -> [ok |-> TRUE, ts |-> 20100331]
      [] text = <<"2010-09-30">> -> [ok |-> TRUE, ts |-> 20100930]
      [] OTHER -> [ok |-> FALSE, ts |-> 0]

\* "iShares(R)" stands for the word iShares followed by the registered sign
NameETF == <<"iShares(R)", " ", "Russell", " ", "3000", " ", "ETF">>
NameIndexFund == <<"iShares(R)", " ", "Russell", " ", "3000", " ", "Index", " ", "Fund">>
NameIndexFundUpper == <<"iSHARES(R)", " ", "RUSSELL", " ", "3000", " ", "INDEX", " ", "FUND">>
NamePlainIndexFund == <<"iShares", " ", "Russell", " ", "3000", " ", "Index", " ", "Fund">>
NameIndexFundII == NameIndexFund \o <<" ", "II">>
NameRussell2000 == <<"iShares(R)", " ", "Russell", " ", "2000", " ", "Index", " ", "Fund">>

\* the three spellings parse_header_info of the modern parser compares with
AcceptedNames == {LowerText(NameETF), LowerText(NameIndexFund), LowerText(NamePlainIndexFund)}

TitleSchedule == <<"Schedule", " ", "of", " ", "Investments">>
TitleScheduleContinued == TitleSchedule \o <<" ", CONTINUED>>
TitleSummary == <<"Summary", " ">> \o TitleSchedule
TitleStatement == <<"Statement", " ", "of", " ", "Assets">>

\* re.match('.*schedule of investments.*', title, re.DOTALL | re.IGNORECASE)
MatchesScheduleAnywhere(title) ==
    \E i \in 1..Len(title) - 4 :
        LowerText(SubSeq(title, i, i + 4)) = LowerText(TitleSchedule)

\* re.match("schedule\s+of\s+investments", soi, re.IGNORECASE)
MatchesScheduleAtStart(title) ==
    Len(title) >= 5 /\ LowerText(SubSeq(title, 1, 5)) = LowerText(TitleSchedule)

\* re.match("iSHARES(R) RUSSELL 3000 INDEX FUND", etf, re.IGNORECASE): a match at
\* the start of etf, whatever follows it
MatchesIndexFundAtStart(etf) ==
    Len(etf) >= Len(NameIndexFundUpper)
    /\ LowerText(SubSeq(etf, 1, Len(NameIndexFundUpper))) = LowerText(NameIndexFundUpper)

TitleMatches_new(title) == MatchesScheduleAnywhere(title)
NameMatches_new(etf_name) == LowerText(etf_name) \in AcceptedNames
TitleMatches_old(soi) == MatchesScheduleAtStart(soi)
NameMatches_old(etf) == MatchesIndexFundAtStart(etf)

\* parse_header_info: [ok, ETF_NAME, REPORT_DATE]; ok = FALSE when it raises
parse_header_info_new(page) ==
    LET title == scrub_tag(page.title)
        etf_name == scrub_tag(page.etf_name)
        report_date == scrub_tag(page.report_date)
    IN  [ok |-> TitleMatches_new(title) /\ NameMatches_new(etf_name) /\ Timestamp(report_date).ok,
         ETF_NAME |-> LowerText(etf_name),
         REPORT_DATE |-> Timestamp(report_date).ts]

parse_header_info_old(page) ==
    LET soi == scrub_tag(page.title)
        etf == scrub_tag(page.etf_name)
        dat == scrub_tag(page.report_date)
    IN  [ok |-> TitleMatches_old(soi) /\ NameMatches_old(etf) /\ Timestamp(dat).ok,
         ETF_NAME |-> LowerText(etf),
         REPORT_DATE |-> Timestamp(dat).ts]

NoHeader == [ok |-> FALSE, ETF_NAME |-> NoneText, REPORT_DATE |-> 0]

\* a variant that takes every page of four tables or more as version 2
get_subversion_atleast4(ntables, heading) ==
    IF ntables = 3 /\ ~heading THEN 1
    ELSE IF ntables = 3 THEN 2
    ELSE IF ntables >= 4 THEN 2
    ELSE 0

\* get_subversion: 0 stands for the ValueError
get_subversion(ntables, heading) ==
    IF ntables = 3 /\ ~heading THEN 1
    ELSE IF ntables = 3 THEN 2
    ELSE IF ntables = 4 THEN 2
    ELSE 0

\* len(extract_holdings_columns(page, version)): tables[:2] or tables[1:3]
NumHoldingsColumns(ntables, v) ==
    IF v = 1 THEN (IF ntables < 2 THEN ntables ELSE 2)
    ELSE (IF ntables < 1 THEN 0 ELSE IF ntables - 1 < 2 THEN ntables - 1 ELSE 2)

----------------------------------------------------------------------------
(* parse_holdings_column: the body of the row loop *)

\* a variant that reads the value from the shares field
HoldingRecordValueFromShares(current_sector, parsed_row) ==
    [SECTOR |-> current_sector,
     COMPANY_NAME |-> Strip(parsed_row[1]),
     SHARES |-> parse_int(parsed_row[2]),
     VALUE |-> parse_int(parsed_row[2])]

HoldingRecord(current_sector, parsed_row) ==
    [SECTOR |-> current_sector,
     COMPANY_NAME |-> Strip(parsed_row[1]),
     SHARES |-> parse_int(parsed_row[2]),
     VALUE |-> parse_int(parsed_row[3])]

\* assert current_sector is not None; assert current_sector not in sector_totals
SubtotalAllowed(current_sector, sector_totals) ==
    current_sector # NoneText /\ current_sector \notin DOMAIN sector_totals

\* if hit_total_common_stocks: break, else: continue
AfterSubtotal(hit) == IF hit THEN "break" ELSE "continue"

\* the sector a label row sets
LabelSector(p, label) ==
    IF p = "new" THEN ReplaceAtom(label, X97, DASHES) ELSE normalize_sector_old(label)

\* a variant that accepts only the letters in lower case
MatchesFootnoteLowerCase(s) ==
    \E i \in 1..Len(s) - 2 :
        s[i] = "(" /\ s[i + 1] \in {"a", "b", "c", "d", "e", "f"} /\ s[i + 2] = ")"

\* m.search(parsed_row[3]) with m = (\(a\)|\(b\)|\(c\)|\(d\)|\(e\)|\(f\)), ignoring case
MatchesFootnote(s) ==
    \E i \in 1..Len(s) - 2 :
        s[i] = "(" /\ Lower(s[i + 1]) \in {"a", "b", "c", "d", "e", "f"} /\ s[i + 2] = ")"

\* a variant with the assertion on the label of the row, which the code has
\* commented out
TwoFieldRowAsserted(st, parsed_row) ==
    IF ~MatchesCommonStock(parsed_row[1]) THEN [ctl |-> "raise", st |-> st]
    ELSE IF parse_int(parsed_row[2]).tag = "ValueError" THEN [ctl |-> "raise", st |-> st]
    ELSE [ctl |-> "break",
          st |-> [st EXCEPT !.sector_totals =
                    DictSet(@, TotalCommonStocks, parse_int(parsed_row[2])),
                            !.hit = TRUE]]

\* elif len(parsed_row) == 2
TwoFieldRow(st, parsed_row) ==
    IF parse_int(parsed_row[2]).tag = "ValueError" THEN [ctl |-> "raise", st |-> st]
    ELSE [ctl |-> "break",
          st |-> [st EXCEPT !.sector_totals =
                    DictSet(@, TotalCommonStocks, parse_int(parsed_row[2])),
                            !.hit = TRUE]]

\* One iteration: st = [sector_totals, records, hit, current_sector];
\* the result says how the iteration ends: "continue", "break" or "raise"
LoopBody(p, st, row) ==
    LET parsed_row == parse_row(row)
        n == Len(parsed_row)
        raise == [ctl |-> "raise", st |-> st]
    IN  IF n = 0 THEN [ctl |-> "continue", st |-> st]
        ELSE IF n = 1 THEN
            IF is_int(parsed_row[1]) THEN
                IF ~SubtotalAllowed(st.current_sector, st.sector_totals) THEN raise
                ELSE IF parse_int(parsed_row[1]).tag = "ValueError" THEN raise
                ELSE [ctl |-> AfterSubtotal(st.hit),
                      st |-> [st EXCEPT !.sector_totals =
                                DictSet(@, st.current_sector, parse_int(parsed_row[1]))]]
            ELSE
                LET current_sector == LabelSector(p, parsed_row[1])
                IN  [ctl |-> "continue",
                     st |-> [st EXCEPT !.current_sector = current_sector,
                                       !.hit = @ \/ MatchesCommonStock(current_sector)]]
        ELSE IF n = 2 THEN TwoFieldRow(st, parsed_row)
        ELSE IF n \in {3, 4} THEN
            IF n = 4 /\ ~MatchesFootnote(parsed_row[4]) THEN raise
            ELSE IF "ValueError" \in {parse_int(parsed_row[2]).tag, parse_int(parsed_row[3]).tag}
            THEN raise
            ELSE [ctl |-> "continue",
                  st |-> [st EXCEPT !.records =
                            Append(@, HoldingRecord(st.current_sector, parsed_row))]]
        ELSE raise

\* The checks on the leading rows of a column; head is the rows they read
SecurityRow == << <<"Security">>, <<"Shares">>, <<"Value">> >>

HeaderRowValid(rows) ==
    /\ Len(rows) >= 1
    /\ Len(rows[1]) >= 3
    /\ scrub_tag(rows[1][1]) = <<"Security">>
    /\ scrub_tag(rows[1][2]) = <<"Shares">>
    /\ scrub_tag(rows[1][3]) = <<"Value">>

FirstColumnValid(rows) ==
    /\ Len(rows) >= 2
    /\ Len(rows[2]) = 1
    /\ MatchesCommonStocksLabel(rows[2][1])

\* is_first_column and check_header of the call of parse_holdings_column
IsFirstColumn(p, page_i, col_i) == IF p = "new" THEN col_i = 0 /\ page_i = 0 ELSE page_i = 0
CheckHeader(p, page_i) == IF p = "new" THEN TRUE ELSE page_i = 0

HeadValid(p, page_i, col_i, head) ==
    /\ CheckHeader(p, page_i) => HeaderRowValid(head)
    /\ (IsFirstColumn(p, page_i, col_i) /\ CheckHeader(p, page_i)) => FirstColumnValid(head)

----------------------------------------------------------------------------
(* parse_filing: aggregation and reconciliation *)

\* a variant that puts the holdings of a later result first
RECURSIVE AllHoldingsLaterFirst(_)
AllHoldingsLaterFirst(results) ==
    IF results = <<>> THEN <<>>
    ELSE results[Len(results)].HOLDINGS
            \o AllHoldingsLaterFirst(SubSeq(results, 1, Len(results) - 1))

RECURSIVE AllHoldings(_)
AllHoldings(results) ==
    IF results = <<>> THEN <<>>
    ELSE AllHoldings(SubSeq(results, 1, Len(results) - 1)) \o results[Len(results)].HOLDINGS

RECURSIVE MergedTotals(_)
MergedTotals(results) ==
    IF results = <<>> THEN EmptyDict
    ELSE DictMerge(MergedTotals(SubSeq(results, 1, Len(results) - 1)),
                   results[Len(results)].SECTOR_TOTALS)

\* val = 0 if h["VALUE"] is None else h["VALUE"]; fillna(0)
ValueOrZero(h) == IF h.VALUE.tag = "None" THEN 0 ELSE h.VALUE.v

RECURSIVE SumValues(_)
SumValues(holdings) ==
    IF holdings = <<>> THEN 0
    ELSE SumValues(Tail(holdings)) + ValueOrZero(holdings[1])

DerivedSectorTotal(holdings, sector) ==
    SumValues(SelectSeq(holdings, LAMBDA h : h.SECTOR = sector))

DerivedSectors(holdings) == {holdings[i].SECTOR : i \in 1..Len(holdings)}

\* a variant that only looks the grand total up, without comparing it
GrandTotalLookedUp(sector_totals, derived_common_totals) ==
    TotalCommonStocks \in DOMAIN sector_totals

\* assert sector_totals["Total Common Stocks"] == derived_common_totals
GrandTotalReconciles(sector_totals, derived_common_totals) ==
    /\ TotalCommonStocks \in DOMAIN sector_totals
    /\ sector_totals[TotalCommonStocks] = IntVal(derived_common_totals)

\* assert total == derived_sector_totals[sector]
SectorTotalReconciles(total, derived) == total = IntVal(derived)

HeadersAgree(results) ==
    \A i \in 2..Len(results) :
        /\ results[i].ETF_NAME = results[i - 1].ETF_NAME
        /\ results[i].REPORT_DATE = results[i - 1].REPORT_DATE

\* parse_filing of the modern parser, from "aggregate holdings" on
Aggregate_new(results) ==
    LET raw == AllHoldings(results)
        holdings == [i \in 1..Len(raw) |->
                        [raw[i] EXCEPT !.SECTOR = normalize_sector_new(@)]]
        sector_totals == MergedTotals(results)
        others == DictPop(sector_totals, TotalCommonStocks)
    IN  [ok |-> /\ HeadersAgree(results)
                /\ \A i \in 1..Len(raw) : raw[i].SECTOR # NoneText
                /\ GrandTotalReconciles(sector_totals, SumValues(holdings))
                /\ \A sector \in DOMAIN others :
                      /\ normalize_sector_new(sector) \in DerivedSectors(holdings)
                      /\ SectorTotalReconciles(others[sector],
                            DerivedSectorTotal(holdings, normalize_sector_new(sector))),
         value |-> [ETF_NAME |-> results[1].ETF_NAME,
                    REPORT_DATE |-> results[1].REPORT_DATE,
                    HOLDINGS |-> holdings]]

\* A VALUE column that holds only None is of dtype object; whether the sum of its
\* fillna(0) has .item() depends on the pandas build: item_ok is that outcome
AllValuesNone(holdings) == \A i \in 1..Len(holdings) : holdings[i].VALUE.tag = "None"

\* parse_filing of the legacy parser, from "sanity check results" on
Aggregate_old(results, header, item_ok) ==
    LET holdings == AllHoldings(results)
        sector_totals == MergedTotals(results)
        others == DictPop(sector_totals, TotalCommonStocks)
    IN  [ok |-> /\ holdings # <<>>
                /\ AllValuesNone(holdings) => item_ok
                /\ GrandTotalReconciles(sector_totals, SumValues(holdings))
                /\ \A sector \in DOMAIN others :
                      SectorTotalReconciles(others[sector], DerivedSectorTotal(holdings, sector)),
         value |-> [ETF_NAME |-> header.ETF_NAME,
                    REPORT_DATE |-> header.REPORT_DATE,
                    HOLDINGS |-> holdings]]

NoResult == [ETF_NAME |-> NoneText, REPORT_DATE |-> 0, HOLDINGS |-> <<>>]

----------------------------------------------------------------------------
(* The documents the model reads: pages, leading rows and rows *)

Page(title, etf_name, report_date, ntables, heading) ==
    [title |-> title, etf_name |-> etf_name, report_date |-> report_date,
     ntables |-> ntables, heading |-> heading]

CommonStocksRow == << <<"Common", " ", "Stocks">> >>
TechRow == << <<"Tech">> >>
FinRow == << <<"Fin">> >>
TotalRow == << TotalCommonStocks >>
TotalPctRow == << TotalCommonStocks \o <<X97, "100%">> >>
Num3Row == << <<"3">> >>
Num6Row == << <<"6">> >>
Split3Row == << <<"Total">>, <<"3">> >>
Split6Row == << <<"Total">>, <<"6">> >>
Hold3Row == << <<"A">>, <<"1">>, <<"3">> >>
HoldNoneRow == << <<"A">>, <<"1">>, <<X97>> >>
NameRow == << <<"Name">>, <<"Shares">>, <<"Value">> >>

\* the leading rows a column may start with, as far as the validation reads them
Heads(p, page_i, col_i) ==
    IF ~CheckHeader(p, page_i) THEN {<<>>}
    ELSE IF ~IsFirstColumn(p, page_i, col_i) THEN {<<SecurityRow>>, <<NameRow>>}
    ELSE {<<SecurityRow, CommonStocksRow>>, <<SecurityRow, TechRow>>,
          <<SecurityRow, Hold3Row>>, <<SecurityRow>>, <<NameRow, CommonStocksRow>>}

FirstPage(p) ==
    Page(TitleSchedule, NameIndexFund, <<"2010-03-31">>, IF p = "new" THEN 3 ELSE 1, FALSE)
LaterPage == Page(TitleScheduleContinued, NameIndexFund, <<"2010-03-31">>, 1, FALSE)

Parsers == {"new", "old"}

\* the label that announces the grand total: the legacy parser cuts the last word
\* of a label that has no dash
TotalLabelRow(p) == IF p = "new" THEN TotalRow ELSE TotalPctRow

\* A menu is the family of documents a specification reads: the first page, the
\* later pages, the rows, and the number of rows of a document
MainRows(p) ==
    {TechRow, FinRow, TotalLabelRow(p), Num3Row, Num6Row, Split3Row, Hold3Row, HoldNoneRow}

MainMenu ==
    [first |-> [p \in Parsers |-> {FirstPage(p)}],
     later |-> [p \in Parsers |-> {LaterPage}],
     rows |-> [p \in Parsers |-> MainRows(p)],
     maxrows |-> MaxRows]

DeepMenu == [MainMenu EXCEPT !.maxrows = MaxRows + 1]

----------------------------------------------------------------------------
(* parse_filing as a state machine *)

MachineInit ==
    /\ parser \in Parsers
    /\ pc = "start"
    /\ npages = 0
    /\ pages = <<>>
    /\ version = 0
    /\ f_i = 0
    /\ f_results = <<>>
    /\ f_current_sector = NoneText
    /\ f_header = NoHeader
    /\ p_header = NoHeader
    /\ p_current_sector = NoneText
    /\ p_hit = FALSE
    /\ p_holdings = <<>>
    /\ p_sector_totals = EmptyDict
    /\ p_ncols = 0
    /\ p_i = 0
    /\ c_sector_totals = EmptyDict
    /\ c_records = <<>>
    /\ c_hit = FALSE
    /\ c_current_sector = NoneText
    /\ result = NoResult
    /\ scanned = <<>>
    /\ heads = <<>>
    /\ stopped = FALSE
    /\ late = 0

Init ==
    /\ MachineInit
    /\ arg = <<>>
    /\ out = <<>>

filing == <<f_i, f_results, f_current_sector, f_header>>
page == <<p_header, p_current_sector, p_hit, p_holdings, p_sector_totals, p_ncols, p_i>>
column == <<c_sector_totals, c_records, c_hit, c_current_sector>>
history == <<scanned, heads, stopped, late>>
probe == <<arg, out>>

\* an uncaught exception ends parse_filing without a result
Raise ==
    /\ pc' = "failed"
    /\ UNCHANGED <<parser, npages, pages, version, filing, page, column, result, history, probe>>

Late == IF stopped THEN late + 1 ELSE late

\* an exception in parse_filing after extract_pages returned n pages
RaiseWithPages(n) ==
    /\ pc' = "failed"
    /\ npages' = n
    /\ UNCHANGED <<parser, pages, version, filing, page, column, result, history, probe>>

\* a variant in which reading pages[0] of an empty list does not raise
FirstPageAssumed(n) == FALSE

\* pages[0] raises IndexError
FirstPageMissing(n) == n = 0

\* pages = extract_pages(buf); version = get_subversion(pages[0]) (modern);
\* header = parse_header_info(pages[0]) (legacy)
Start(M) ==
    /\ pc = "start"
    /\ \E n \in 0..MaxPages :
        IF FirstPageMissing(n) THEN RaiseWithPages(n)
        ELSE \E pg \in M.first[parser] :
            IF parser = "new" /\ get_subversion(pg.ntables, pg.heading) = 0 THEN RaiseWithPages(n)
            ELSE IF parser = "old" /\ ~parse_header_info_old(pg).ok THEN RaiseWithPages(n)
            ELSE /\ npages' = n
                 /\ pages' = <<pg>>
                 /\ version' = IF parser = "new" THEN get_subversion(pg.ntables, pg.heading) ELSE 0
                 /\ f_header' = IF parser = "old" THEN parse_header_info_old(pg) ELSE f_header
                 /\ pc' = "page"
                 /\ UNCHANGED <<parser, f_i, f_results, f_current_sector, page, column,
                                result, history, probe>>

\* the next turn of the page loop: parse_holdings_page up to its column loop
\* (modern), tables = page.find_all("table") (legacy)
EnterPage(M) ==
    /\ pc = "page"
    /\ \E pg \in (IF f_i = 0 THEN {pages[1]} ELSE M.later[parser]) :
        IF parser = "new" /\ ~parse_header_info_new(pg).ok THEN Raise
        ELSE /\ pages' = IF f_i = 0 THEN pages ELSE Append(pages, pg)
             /\ p_header' = IF parser = "new" THEN parse_header_info_new(pg) ELSE p_header
             /\ p_current_sector' = f_current_sector
             /\ p_hit' = FALSE
             /\ p_holdings' = <<>>
             /\ p_sector_totals' = EmptyDict
             /\ p_ncols' = IF parser = "new" THEN NumHoldingsColumns(pg.ntables, version)
                           ELSE pg.ntables
             /\ p_i' = 0
             /\ pc' = IF p_ncols' = 0 THEN "pageret" ELSE "col"
             /\ late' = Late
             /\ UNCHANGED <<parser, npages, version, filing, column, result,
                            scanned, heads, stopped, probe>>

\* the sector handed to the next column
ColumnSector == IF parser = "new" THEN p_current_sector ELSE f_current_sector

\* parse_holdings_column up to its row loop
EnterColumn(M) ==
    /\ pc = "col"
    /\ \E head \in Heads(parser, f_i, p_i) :
        IF ~HeadValid(parser, f_i, p_i, head) THEN Raise
        ELSE /\ c_sector_totals' = EmptyDict
             /\ c_records' = <<>>
             /\ c_hit' = FALSE
             /\ c_current_sector' = ColumnSector
             /\ heads' = Append(heads, head)
             /\ late' = Late
             /\ pc' = "rows"
             /\ UNCHANGED <<parser, npages, pages, version, filing, page, result,
                            scanned, stopped, probe>>

ColumnState ==
    [sector_totals |-> c_sector_totals, records |-> c_records, hit |-> c_hit,
     current_sector |-> c_current_sector]

\* the row is a two-field row, or a single-field numeric row met with the flag raised
Terminating(row) ==
    LET parsed_row == parse_row(row)
    IN  \/ Len(parsed_row) = 2
        \/ Len(parsed_row) = 1 /\ is_int(parsed_row[1]) /\ c_hit

\* one turn of the row loop
ParseRow(M) ==
    /\ pc = "rows"
    /\ Len(scanned) < M.maxrows
    /\ \E row \in M.rows[parser] :
        LET b == LoopBody(parser, ColumnState, row)
        IN  IF b.ctl = "raise" THEN Raise
            ELSE /\ c_sector_totals' = b.st.sector_totals
                 /\ c_records' = b.st.records
                 /\ c_hit' = b.st.hit
                 /\ c_current_sector' = b.st.current_sector
                 /\ pc' = IF b.ctl = "break" THEN "colret" ELSE "rows"
                 /\ scanned' = Append(scanned, [page |-> f_i, col |-> p_i, row |-> row])
                 /\ stopped' = (stopped \/ Terminating(row))
                 /\ late' = Late
                 /\ UNCHANGED <<parser, npages, pages, version, filing, page, result,
                                heads, probe>>

\* the row loop runs out of rows
EndColumn ==
    /\ pc = "rows"
    /\ pc' = "colret"
    /\ stopped' = (stopped \/ c_hit)
    /\ UNCHANGED <<parser, npages, pages, version, filing, page, column, result,
                   scanned, heads, late, probe>>

ColumnResult ==
    [ETF_NAME |-> NoneText, REPORT_DATE |-> 0,
     HOLDINGS |-> c_records, SECTOR_TOTALS |-> c_sector_totals,
     HIT_TOTAL_COMMON_STOCKS |-> c_hit, CURRENT_SECTOR |-> c_current_sector]

\* a variant in which the caller drops the sector of the result
SectorDropped(current_sector) == NoneText

\* the sector the caller keeps from a result: current_sector = h["CURRENT_SECTOR"]
ThreadSector(current_sector) == current_sector

\* a variant in which the caller never looks at the flag of the result
FlagIgnored(hit) == FALSE

\* if h["HIT_TOTAL_COMMON_STOCKS"]: ... break
StopScan(hit) == hit

\* parse_holdings_column returns: the rest of the turn of the column loop
ReturnColumn ==
    /\ pc = "colret"
    /\ IF parser = "new"
       THEN /\ p_holdings' = p_holdings \o c_records
            /\ p_sector_totals' = DictMerge(p_sector_totals, c_sector_totals)
            /\ p_current_sector' = ThreadSector(c_current_sector)
            /\ p_hit' = StopScan(c_hit)
            /\ IF StopScan(c_hit) \/ p_i + 1 >= p_ncols
               THEN pc' = "pageret" /\ p_i' = p_i
               ELSE pc' = "col" /\ p_i' = p_i + 1
            /\ UNCHANGED <<parser, npages, pages, version, filing, p_header, p_ncols,
                           column, result, history, probe>>
       ELSE /\ f_current_sector' = ThreadSector(c_current_sector)
            /\ f_results' = Append(f_results, ColumnResult)
            /\ IF StopScan(c_hit) THEN pc' = "agg" /\ p_i' = p_i
               ELSE IF p_i + 1 >= p_ncols THEN pc' = "pageret" /\ p_i' = p_i
               ELSE pc' = "col" /\ p_i' = p_i + 1
            /\ UNCHANGED <<parser, npages, pages, version, f_i, f_header,
                           p_header, p_current_sector, p_hit, p_holdings, p_sector_totals,
                           p_ncols, column, result, history, probe>>

PageResult ==
    [ETF_NAME |-> p_header.ETF_NAME, REPORT_DATE |-> p_header.REPORT_DATE,
     HOLDINGS |-> p_holdings, SECTOR_TOTALS |-> p_sector_totals,
     HIT_TOTAL_COMMON_STOCKS |-> p_hit, CURRENT_SECTOR |-> p_current_sector]

\* the column loop of a page is over: the rest of the turn of the page loop
ReturnPage ==
    /\ pc = "pageret"
    /\ IF parser = "new"
       THEN /\ f_current_sector' = ThreadSector(p_current_sector)
            /\ f_results' = Append(f_results, PageResult)
            /\ IF StopScan(p_hit) \/ f_i + 1 >= npages
               THEN pc' = "agg" /\ f_i' = f_i
               ELSE pc' = "page" /\ f_i' = f_i + 1
       ELSE /\ UNCHANGED <<f_current_sector, f_results>>
            /\ IF f_i + 1 >= npages
               THEN pc' = "agg" /\ f_i' = f_i
               ELSE pc' = "page" /\ f_i' = f_i + 1
    /\ UNCHANGED <<parser, npages, pages, version, f_header, page, column, result,
                   history, probe>>

\* parse_filing after the page loop
Aggregate ==
    /\ pc = "agg"
    /\ \E item_ok \in BOOLEAN :
        LET a == IF parser = "new" THEN Aggregate_new(f_results)
                 ELSE Aggregate_old(f_results, f_header, item_ok)
        IN  IF ~a.ok THEN Raise
            ELSE /\ result' = a.value
                 /\ pc' = "returned"
                 /\ UNCHANGED <<parser, npages, pages, version, filing, page, column,
                                history, probe>>

Step(M) ==
    \/ Start(M)
    \/ EnterPage(M)
    \/ EnterColumn(M)
    \/ ParseRow(M)
    \/ EndColumn
    \/ ReturnColumn
    \/ ReturnPage
    \/ Aggregate

Next == Step(MainMenu)
Spec == Init /\ [][Next]_vars

NextDeep == Step(DeepMenu)
SpecDeep == Init /\ [][NextDeep]_vars

----------------------------------------------------------------------------
(* Filings whose pages print different titles, fund names and report dates *)

HdrRows == 3

HdrTitles == {TitleSchedule, TitleSummary, TitleStatement}
HdrNames == {NameIndexFund, NameIndexFundII, NameRussell2000, NameETF}
HdrDates == {<<"2010-03-31">>, <<"2010-09-30">>, <<"n/a">>}

HdrPages(ntables) ==
    {Page(t, n, d, ntables, FALSE) : t \in HdrTitles, n \in HdrNames, d \in HdrDates}

HdrMenu ==
    [first |-> [p \in Parsers |-> HdrPages(FirstPage(p).ntables)],
     later |-> [p \in Parsers |-> HdrPages(LaterPage.ntables)],
     rows |-> [p \in Parsers |-> {TechRow, Hold3Row, Split3Row}],
     maxrows |-> HdrRows]

NextHdr == Step(HdrMenu)
SpecHdr == Init /\ [][NextHdr]_vars

----------------------------------------------------------------------------
(* parse_int and normalize_sector on their own: out is the sequence of the     *)
(* values computed so far, each from the one before, the first from arg       *)

Texts(atoms, n) == UNION {[1..k -> atoms] : k \in 0..n}

IntAtoms == {"3", "0", "-", ",", " ", X97, "(", "e", ")"}
LabelAtoms == {"Health", "Care", " ", DASHES, CONTINUED}

\* the cell texts; the label texts are two atoms longer
IntTexts == Texts(IntAtoms, MaxLen)
LabelTexts == Texts(LabelAtoms, MaxLen + 2)

normalize_sector(p, sector) ==
    IF p = "new" THEN normalize_sector_new(sector) ELSE normalize_sector_old(sector)

InitInt == MachineInit /\ arg \in IntTexts /\ out = <<>>

ParseInt ==
    /\ out = <<>>
    /\ out' = <<parse_int(arg)>>
    /\ UNCHANGED <<machine, arg>>

NextInt == ParseInt
SpecInt == InitInt /\ [][NextInt]_vars

InitNorm == MachineInit /\ arg \in LabelTexts /\ out = <<>>

NormalizeSector ==
    /\ Len(out) < 2
    /\ out' = Append(out, normalize_sector(parser, IF out = <<>> THEN arg ELSE out[Len(out)]))
    /\ UNCHANGED <<machine, arg>>

NextNorm == NormalizeSector
SpecNorm == InitNorm /\ [][NextNorm]_vars

----------------------------------------------------------------------------
(* The rows of the document, as the row loop classifies them *)

IsHolding(e) == Len(parse_row(e.row)) \in {3, 4}
IsLabel(e) == Len(parse_row(e.row)) = 1 /\ ~is_int(parse_row(e.row)[1])
IsSubtotal(e) == Len(parse_row(e.row)) = 1 /\ is_int(parse_row(e.row)[1])

HoldingRows == {k \in 1..Len(scanned) : IsHolding(scanned[k])}
SubtotalRows == {k \in 1..Len(scanned) : IsSubtotal(scanned[k])}
LabelsBefore(k) == {j \in 1..k - 1 : IsLabel(scanned[j])}

\* current_sector when row k is classified: the sector of the most recent label row
SectorAt(k) ==
    IF LabelsBefore(k) = {} THEN NoneText
    ELSE LabelSector(parser, parse_row(scanned[SetMax(LabelsBefore(k))].row)[1])

\* the sector a returned holding carries when it was classified under current_sector
ReturnedSector(current_sector) ==
    IF parser = "new" THEN normalize_sector_new(current_sector) ELSE current_sector

\* the returned holding that holding row k became
HoldingOf(k) == result.HOLDINGS[Cardinality({j \in HoldingRows : j <= k})]

\* the header parse_header_info reads from a page
PageHeader(pg) ==
    IF parser = "new" THEN parse_header_info_new(pg) ELSE parse_header_info_old(pg)

----------------------------------------------------------------------------
(* Properties *)

\* C1: a result is returned only if the grand total recorded under
\* "Total Common Stocks" equals the sum of the values of all returned holdings,
\* null values counted as zero
GrandTotalEqualsHoldings ==
    pc = "returned" =>
        /\ TotalCommonStocks \in DOMAIN MergedTotals(f_results)
        /\ MergedTotals(f_results)[TotalCommonStocks] = IntVal(SumValues(result.HOLDINGS))

\* a result whose holdings mix a null value with an integer one
ReturnedWithNullAndIntValues ==
    /\ pc = "returned"
    /\ \E i \in 1..Len(result.HOLDINGS) : result.HOLDINGS[i].VALUE.tag = "None"
    /\ \E i \in 1..Len(result.HOLDINGS) :
          result.HOLDINGS[i].VALUE.tag = "int" /\ result.HOLDINGS[i].VALUE.v > 0

\* C2: when a result is returned, every classified sector subtotal row (the grand
\* total apart) equals the sum of the values of the returned holdings of its sector
EverySubtotalRowReconciles ==
    pc = "returned" =>
        \A k \in SubtotalRows :
            SectorAt(k) # TotalCommonStocks =>
                parse_int(parse_row(scanned[k].row)[1]) =
                    IntVal(DerivedSectorTotal(result.HOLDINGS, ReturnedSector(SectorAt(k))))

\* C3: no returned holding has a null sector
NoNullSectorReturned ==
    pc = "returned" =>
        \A i \in 1..Len(result.HOLDINGS) : result.HOLDINGS[i].SECTOR # NoneText

\* C4: no subtotal row is classified for a sector that already has a subtotal
\* from an earlier row of the document
NoSecondSubtotal ==
    \A j \in SubtotalRows : \A k \in SubtotalRows :
        j < k => SectorAt(j) # SectorAt(k)

\* C5: parse_int gives null exactly for the placeholders, and otherwise a
\* non-negative integer or an error
ParseIntNullOrNonNegative ==
    out # <<>> =>
        /\ out[1].tag = "None" <=> CleanNumber(arg) \in Placeholders
        /\ out[1].tag = "int" => out[1].v >= 0

\* C6: normalize_sector(normalize_sector(s)) = normalize_sector(s)
NormalizeIdempotent ==
    Len(out) = 2 => out[2] = out[1]

\* C7: once a terminating row is classified, or a column ends with the flag
\* raised, no row, column or page is read any more
NothingReadAfterStop == late = 0

\* a result returned after the scan stopped before the last column or page
ReturnedWithUnreadColumnOrPage ==
    /\ pc = "returned"
    /\ stopped
    /\ result.HOLDINGS # <<>>
    /\ p_i + 1 < p_ncols \/ f_i + 1 < npages

\* C8: every returned holding carries the sector of the most recent label row
\* before its row, wherever that label row lies
SectorOfMostRecentLabel ==
    pc = "returned" =>
        /\ Len(result.HOLDINGS) = Cardinality(HoldingRows)
        /\ \A k \in HoldingRows :
              LabelsBefore(k) # {} => HoldingOf(k).SECTOR = ReturnedSector(SectorAt(k))

\* a result with a holding whose label lies in an earlier column of its page and
\* a holding whose label lies on an earlier page
ReturnedWithLabelAcrossColumnAndPage ==
    /\ pc = "returned"
    /\ \E k \in HoldingRows :
          /\ LabelsBefore(k) # {}
          /\ scanned[SetMax(LabelsBefore(k))].page = scanned[k].page
          /\ scanned[SetMax(LabelsBefore(k))].col < scanned[k].col
    /\ \E k \in HoldingRows :
          /\ LabelsBefore(k) # {}
          /\ scanned[SetMax(LabelsBefore(k))].page < scanned[k].page

\* C9: when a result is returned, every page read carries the fund name and the
\* report date of the result
EveryPageHeaderAgrees ==
    pc = "returned" =>
        \A i \in 1..Len(pages) :
            /\ PageHeader(pages[i]).ETF_NAME = result.ETF_NAME
            /\ PageHeader(pages[i]).REPORT_DATE = result.REPORT_DATE

\* C10: a result is returned only if the title of the first page matches the
\* schedule-of-investments pattern, and its fund name is the lower-cased form of
\* an accepted spelling
ReturnedNameIsAccepted ==
    pc = "returned" =>
        /\ MatchesScheduleAnywhere(scrub_tag(pages[1].title))
        /\ result.ETF_NAME \in AcceptedNames

----------------------------------------------------------------------------
(* extract_pages: the segmentation of the buffer.  A byte of buf is "x", or the *)
(* first byte of a text that the first separator matches ("A"), the second     *)
(* ("B"), or both ("AB": the separators differ in case only and are compiled   *)
(* with re.IGNORECASE)                                                         *)

BufAtoms == {"A", "B", "AB", "x"}
Bufs == Texts(BufAtoms, MaxLen + 2)

\* matcher.finditer(buf): the start offsets, ascending
RECURSIVE Finditer(_, _, _)
Finditer(buf, hits, from) ==
    IF from >= Len(buf) THEN <<>>
    ELSE (IF buf[from + 1] \in hits THEN <<from>> ELSE <<>>) \o Finditer(buf, hits, from + 1)

\* for matcher in matchers: for match in matcher.finditer(buf): matches.append(match)
Matches(buf) == Finditer(buf, {"A", "AB"}, 0) \o Finditer(buf, {"B", "AB"}, 0)

RECURSIVE Insert(_, _)
Insert(sorted, x) ==
    IF sorted = <<>> THEN <<x>>
    ELSE IF x < sorted[1] THEN <<x>> \o sorted
    ELSE <<sorted[1]>> \o Insert(Tail(sorted), x)

\* a variant that leaves the matches in the order of the matchers
OrderOfMatchers(matches) == matches

\* sorted(matches, key=lambda x: x.start())
RECURSIVE SortByStart(_)
SortByStart(matches) ==
    IF matches = <<>> THEN <<>>
    ELSE Insert(SortByStart(SubSeq(matches, 1, Len(matches) - 1)), matches[Len(matches)])

\* buf[start:end]
Slice(buf, start, end) ==
    IF end <= start THEN <<>> ELSE SubSeq(buf, start + 1, IF end > Len(buf) THEN Len(buf) ELSE end)

\* the candidate pages, each with the offsets it was cut at
CandidatePages(buf) ==
    LET matches == SortByStart(Matches(buf))
    IN  [i \in 1..(IF matches = <<>> THEN 0 ELSE Len(matches) - 1) |->
            [start |-> matches[i], end |-> matches[i + 1],
             bytes |-> Slice(buf, matches[i], matches[i + 1])]]

InitSeg == MachineInit /\ arg \in Bufs /\ out = <<>>

ExtractPages ==
    /\ out = <<>>
    /\ out' = <<CandidatePages(arg)>>
    /\ UNCHANGED <<machine, arg>>

NextSeg == ExtractPages
SpecSeg == InitSeg /\ [][NextSeg]_vars

\* the match offsets of a buffer, and how many matches start at an offset
MatchOffsets(buf) == {i \in 0..Len(buf) - 1 : buf[i + 1] # "x"}
MatchesAt(buf, i) == IF buf[i + 1] = "AB" THEN 2 ELSE IF buf[i + 1] = "x" THEN 0 ELSE 1

RECURSIVE CountMatches(_, _)
CountMatches(buf, from) ==
    IF from >= Len(buf) THEN 0 ELSE MatchesAt(buf, from) + CountMatches(buf, from + 1)

\* C11: k matches give k - 1 candidate pages, each the bytes between two
\* matches, in ascending order, each ending where the next starts, the first
\* starting at the first match and the last ending at the last match
PagesPartitionBetweenMatches ==
    out # <<>> =>
        LET cand == out[1]
            k == CountMatches(arg, 0)
        IN  /\ k >= 1 => Len(cand) = k - 1
            /\ k = 0 => cand = <<>>
            /\ \A i \in 1..Len(cand) :
                  /\ cand[i].start \in MatchOffsets(arg)
                  /\ cand[i].end \in MatchOffsets(arg)
                  /\ cand[i].start <= cand[i].end
                  /\ cand[i].bytes = SubSeq(arg, cand[i].start + 1, cand[i].end)
                  /\ \A o \in MatchOffsets(arg) : ~(cand[i].start < o /\ o < cand[i].end)
            /\ \A i \in 1..Len(cand) - 1 : cand[i].end = cand[i + 1].start
            /\ cand # <<>> =>
                  /\ cand[1].start = SetMin(MatchOffsets(arg))
                  /\ cand[Len(cand)].end = SetMax(MatchOffsets(arg))

\* two pages or more, cut from matches that the matchers found out of order, with
\* bytes before the first match and after the last
PagesCutFromUnsortedMatches ==
    /\ out # <<>>
    /\ Len(out[1]) >= 2
    /\ Matches(arg) # SortByStart(Matches(arg))
    /\ SetMin(MatchOffsets(arg)) > 0
    /\ SetMax(MatchOffsets(arg)) < Len(arg) - 1

----------------------------------------------------------------------------
(* get_subversion on the first page: its number of tables and the text of its  *)
(* first table                                                                  *)

MaxTables == 6

\* soi.search(tables[0].prettify().strip()) is not None, with
\* soi = ".*schedule.*of.*investments.*russell.*3000", re.DOTALL | re.IGNORECASE
LooksLikeHeading(text) ==
    \E a, b, c, e, f \in 1..Len(text) :
        /\ a < b /\ b < c /\ c < e /\ e < f
        /\ Lower(text[a]) = "schedule" /\ Lower(text[b]) = "of"
        /\ Lower(text[c]) = "investments" /\ Lower(text[e]) = "russell" /\ text[f] = "3000"

HeadingTable == TitleSchedule \o <<" ">> \o NameETF
HeadingTableUpper ==
    <<"SCHEDULE", " ", "OF", " ", "INVESTMENTS", " ", "iSHARES(R)", " ", "RUSSELL", " ", "3000", " ", "ETF">>
NameBeforeTitleTable == NameETF \o <<" ">> \o TitleSchedule
HoldingsTable == <<"Security", " ", "Shares", " ", "Value">>

FirstTables == {HeadingTable, HeadingTableUpper, NameBeforeTitleTable, TitleSchedule, HoldingsTable}

FirstPages == [ntables : 0..MaxTables, first : FirstTables]

InitVer == MachineInit /\ arg \in FirstPages /\ out = <<>>

GetSubversion ==
    /\ out = <<>>
    /\ out' = <<get_subversion(arg.ntables, arg.ntables > 0 /\ LooksLikeHeading(arg.first))>>
    /\ UNCHANGED <<machine, arg>>

NextVer == GetSubversion
SpecVer == InitVer /\ [][NextVer]_vars

\* C12: three tables give version 1 when the first table is not the schedule
\* heading and version 2 when it is, four tables give version 2, every other
\* number of tables is an error (0)
SubversionDecision ==
    out # <<>> =>
        LET heading == arg.first \in {HeadingTable, HeadingTableUpper}
        IN  out[1] = CASE arg.ntables = 3 /\ ~heading -> 1
                       [] arg.ntables = 3 /\ heading -> 2
                       [] arg.ntables = 4 -> 2
                       [] OTHER -> 0

\* three tables whose first is the heading in capitals: version 2
ThreeTablesWithHeading ==
    /\ out = <<2>>
    /\ arg.ntables = 3
    /\ arg.first = HeadingTableUpper

\* C13: a document with no relevant page ends in the failure, without a result
NoPageNoResult ==
    (pc # "start" /\ npages = 0) => (pc = "failed" /\ result = NoResult)

\* the parse of a document with no relevant page has failed
FailedWithoutPages ==
    pc = "failed" /\ npages = 0 /\ pages = <<>>

----------------------------------------------------------------------------
(* Columns of a sector label, holdings and a sector subtotal *)

HealthCareRow == << <<"Health", " ", "Care">> >>
TechPctRow == << <<"Tech", X97, "5%">> >>
AcmeRow == << <<"Acme", " ", "Corp">>, <<"1", ",", "0", "0", "0">>, <<"5", "0", ",", "0", "0", "0">> >>
Num12345Row == << <<"1", "2", ",", "3", "4", "5">> >>

ColMenu ==
    [MainMenu EXCEPT
        !.rows = [p \in Parsers |->
                    {HealthCareRow, TechPctRow, Hold3Row, AcmeRow, Num12345Row}]]

NextCol == Step(ColMenu)
SpecCol == Init /\ [][NextCol]_vars

\* the integer a cell prints, thousands separators removed
CellInteger(cell) == IntVal(DigitsValue(RemoveAtoms(Strip(cell), {","})))

\* parse_holdings_column has returned from the first column of the document, whose
\* rows were the header row, a "Common Stocks" label, a sector label, one or more
\* three-field rows and a single-field numeric row
LabelHoldingsSubtotalColumn ==
    /\ pc = "colret" /\ f_i = 0 /\ p_i = 0
    /\ heads = << <<SecurityRow, CommonStocksRow>> >>
    /\ Len(scanned) >= 3
    /\ IsLabel(scanned[1])
    /\ IsSubtotal(scanned[Len(scanned)])
    /\ \A k \in 2..Len(scanned) - 1 : Len(parse_row(scanned[k].row)) = 3

\* the result of that column, with the holdings under the sector sec
ColumnYields(sec) ==
    /\ Len(c_records) = Len(scanned) - 2
    /\ \A k \in 1..Len(c_records) :
          c_records[k] = [SECTOR |-> sec,
                          COMPANY_NAME |-> Strip(scanned[k + 1].row[1]),
                          SHARES |-> CellInteger(scanned[k + 1].row[2]),
                          VALUE |-> CellInteger(scanned[k + 1].row[3])]
    /\ DOMAIN c_sector_totals = {sec}
    /\ c_sector_totals[sec] = CellInteger(scanned[Len(scanned)].row[1])

----------------------------------------------------------------------------
(* cli.parse_ncsr: the batch run over the filing index.  arg is the index; a    *)
(* row says its PERIOD_OF_REPORT, whether its file is in SKIP_FILES and whether *)
(* parse_filing returns for its file (or raises).  out is the run: the outcome  *)
(* of each row so far and the position of parse_ncsr                            *)

MaxDocs == 3

Periods == {"2010-03-31", "2010-09-30"}
IndexRows == [period : Periods, in_skip_files : BOOLEAN, parses : BOOLEAN]
Indexes == UNION {[1..k -> IndexRows] : k \in 0..MaxDocs}

\* the targets in output_dir
Written(idx, outcomes) == {idx[i].period : i \in {j \in 1..Len(outcomes) : outcomes[j] = "written"}}

InitBatch == MachineInit /\ arg \in Indexes /\ out = [outcomes |-> <<>>, pc |-> "loop"]

\* one turn of the loop over idx.iterrows()
ParseDocument ==
    /\ out.pc = "loop"
    /\ Len(out.outcomes) < Len(arg)
    /\ LET row == arg[Len(out.outcomes) + 1]
       IN  IF row.period \in Written(arg, out.outcomes)
           THEN out' = [out EXCEPT !.outcomes = Append(@, "exists")]
           ELSE IF row.in_skip_files
           THEN out' = [out EXCEPT !.outcomes = Append(@, "skipped")]
           ELSE IF ~row.parses
           THEN out' = [outcomes |-> Append(out.outcomes, "raised"), pc |-> "raised"]
           ELSE out' = [out EXCEPT !.outcomes = Append(@, "written")]
    /\ UNCHANGED <<machine, arg>>

\* return None
ReturnBatch ==
    /\ out.pc = "loop"
    /\ Len(out.outcomes) = Len(arg)
    /\ out' = [out EXCEPT !.pc = "returned"]
    /\ UNCHANGED <<machine, arg>>

NextBatch == ParseDocument \/ ReturnBatch
SpecBatch == InitBatch /\ [][NextBatch]_vars

\* C15: when the batch run is over, every document of the index that parse_filing
\* can parse and that is not in SKIP_FILES has been written
EveryParsableDocumentWritten ==
    out.pc \in {"returned", "raised"} =>
        \A i \in 1..Len(arg) :
            (arg[i].parses /\ ~arg[i].in_skip_files) =>
                arg[i].period \in Written(arg, out.outcomes)

----------------------------------------------------------------------------
(* Columns with a label that matches "common stock" and is not the grand-total *)
(* label                                                                       *)

CommonStocksPctRow == << <<"Common", " ", "Stocks", X97, "99%">> >>

FlagMenu ==
    [MainMenu EXCEPT
        !.rows = [p \in Parsers |-> {TechRow, CommonStocksPctRow, Hold3Row, Num3Row, Split3Row}]]

NextFlag == Step(FlagMenu)
SpecFlag == Init /\ [][NextFlag]_vars

\* row k is a label that raises the flag, and row k + 1 a single-field numeric
\* row of the same column
FlagLabelThenNumber(k) ==
    /\ k >= 1
    /\ IsLabel(scanned[k])
    /\ MatchesCommonStock(LabelSector(parser, parse_row(scanned[k].row)[1]))
    /\ IsSubtotal(scanned[k + 1])
    /\ scanned[k].page = scanned[k + 1].page
    /\ scanned[k].col = scanned[k + 1].col

\* the scan is over, and its last row was a two-field row, or a single-field
\* numeric row that follows a label raising the flag
StoppedByTerminatingRow ==
    /\ pc = "agg"
    /\ c_hit
    /\ scanned # <<>>
    /\ scanned[Len(scanned)].page = f_i
    /\ scanned[Len(scanned)].col = p_i
    /\ \/ Len(parse_row(scanned[Len(scanned)].row)) = 2
       \/ FlagLabelThenNumber(Len(scanned) - 1)

\* C16: when the scan stops at a terminating row, a subtotal is recorded under
\* "Total Common Stocks"
GrandTotalCaptured ==
    StoppedByTerminatingRow => TotalCommonStocks \in DOMAIN MergedTotals(f_results)

----------------------------------------------------------------------------
(* One turn of the row loop of parse_holdings_column on its own: arg is the   *)
(* state of the column and the row, out the outcome of the turn               *)

FootnoteAtoms == {"(", "a", "A", "g", ")"}
NumberAtoms == {"3", ",", "M", " "}
SectorAtoms == {"Common", " ", "Stocks", DASHES, CONTINUED}

FourFieldRows == {Hold3Row \o <<f>> : f \in Texts(FootnoteAtoms, MaxLen + 1)}
SingleFieldRows == {<<c>> : c \in Texts(NumberAtoms, MaxLen) \cup Texts(SectorAtoms, MaxLen + 1)}
TwoFieldRows ==
    {<<l, v>> : l \in {TotalCommonStocks, <<"Total">>, <<"Tech">>}, v \in {<<"3">>, <<X97>>, <<"M">>}}

ColumnStates ==
    [sector_totals : {EmptyDict, DictSet(EmptyDict, <<"Tech">>, IntVal(3))},
     records : {<<>>},
     hit : BOOLEAN,
     current_sector : {NoneText, <<"Tech">>}]

InitRow ==
    /\ MachineInit
    /\ arg \in [st : ColumnStates,
                row : FourFieldRows \cup SingleFieldRows \cup TwoFieldRows \cup {Hold3Row}]
    /\ out = <<>>

ClassifyRow ==
    /\ out = <<>>
    /\ out' = <<LoopBody(parser, arg.st, arg.row)>>
    /\ UNCHANGED <<machine, arg>>

NextRow == ClassifyRow
SpecRow == InitRow /\ [][NextRow]_vars

\* the footnote codes
FootnoteCodes == {<<"(", x, ")">> : x \in {"a", "b", "c", "d", "e", "f"}}

\* the text holds a footnote code, in either case
HoldsFootnoteCode(text) ==
    \E i \in 1..Len(text) - 2 : LowerText(SubSeq(text, i, i + 2)) \in FootnoteCodes

\* the row of the first three fields of a four-field row
FirstThreeFields(row) == SubSeq(row, 1, 3)

\* C17, as stated: a four-field row is accepted exactly when its fourth field is
\* a footnote code, and then gives what its first three fields give
FourthFieldIsFootnoteCode ==
    (out # <<>> /\ Len(parse_row(arg.row)) = 4) =>
        /\ out[1].ctl # "raise" <=> LowerText(Strip(arg.row[4])) \in FootnoteCodes
        /\ out[1].ctl # "raise" => out[1] = LoopBody(parser, arg.st, FirstThreeFields(arg.row))

\* C17, amended: a four-field row is accepted exactly when its fourth field
\* holds a footnote code, in either case, and then gives what its first three
\* fields give
FourthFieldHoldsFootnoteCode ==
    (out # <<>> /\ Len(parse_row(arg.row)) = 4) =>
        /\ out[1].ctl # "raise" <=> HoldsFootnoteCode(arg.row[4])
        /\ out[1].ctl # "raise" =>
              /\ out[1] = LoopBody(parser, arg.st, FirstThreeFields(arg.row))
              /\ out[1].st.records =
                    <<[SECTOR |-> arg.st.current_sector, COMPANY_NAME |-> <<"A">>,
                       SHARES |-> IntVal(1), VALUE |-> IntVal(3)]>>

\* a four-field row with the footnote "(A)" was accepted
UpperCaseFootnoteAccepted ==
    /\ out # <<>>
    /\ Len(arg.row) = 4
    /\ arg.row[4] = <<"(", "A", ")">>
    /\ out[1].ctl = "continue"
    /\ Len(out[1].st.records) = 1

\* the text is an integer once its thousands separators are removed
IsIntegerText(cell) ==
    LET t == RemoveAtoms(Strip(cell), {","})
    IN  t # <<>> /\ \A i \in 1..Len(t) : t[i] \in Digits

\* the turn took the row for the subtotal of the current sector
TakenAsSubtotal ==
    IF SubtotalAllowed(arg.st.current_sector, arg.st.sector_totals)
    THEN /\ out[1].ctl = AfterSubtotal(arg.st.hit)
         /\ out[1].st = [arg.st EXCEPT !.sector_totals =
                            DictSet(@, arg.st.current_sector, CellInteger(arg.row[1]))]
    ELSE out[1].ctl = "raise"

\* the turn took the row for a sector label
TakenAsLabel ==
    /\ out[1].ctl = "continue"
    /\ out[1].st.sector_totals = arg.st.sector_totals
    /\ out[1].st.records = arg.st.records
    /\ out[1].st.current_sector = LabelSector(parser, arg.row[1])

\* C18: a single-field row is taken for a sector subtotal exactly when its text
\* is an integer once the thousands separators are removed, and for a sector
\* label in every other case, which never aborts the parse
SingleFieldSubtotalIffInteger ==
    (out # <<>> /\ Len(parse_row(arg.row)) = 1 /\ Len(arg.row) = 1) =>
        IF IsIntegerText(arg.row[1]) THEN TakenAsSubtotal ELSE TakenAsLabel

\* the normalized form of a label: the separator written as dashes, then
\* normalize_sector of the parser
NormalizedLabel(label) == normalize_sector(parser, ReplaceAtom(label, X97, DASHES))

\* C19: after a single-field non-numeric row the current sector is the
\* normalized form of its label, and the grand-total flag is raised when the
\* normalized label matches "common stock"
LabelSetsNormalizedSector ==
    (out # <<>> /\ Len(arg.row) = 1 /\ Len(parse_row(arg.row)) = 1 /\ ~is_int(parse_row(arg.row)[1])) =>
        /\ out[1].ctl = "continue"
        /\ out[1].st.current_sector = NormalizedLabel(parse_row(arg.row)[1])
        /\ out[1].st.hit = (arg.st.hit \/ MatchesCommonStock(NormalizedLabel(parse_row(arg.row)[1])))

\* the turn read a row of two fields
TwoFieldsRead == out # <<>> /\ Len(arg.row) = 2 /\ Len(parse_row(arg.row)) = 2

\* the value a numeric cell stands for: an integer, or None for a placeholder
CellValue(cell) == IF Strip(cell) \in Placeholders THEN NoneVal ELSE CellInteger(cell)

\* the turn recorded the second field as the grand total and ended the column
RecordedAsGrandTotal ==
    /\ out[1].ctl = "break"
    /\ out[1].st.hit
    /\ out[1].st.sector_totals =
          DictSet(arg.st.sector_totals, TotalCommonStocks, CellValue(arg.row[2]))
    /\ out[1].st.records = arg.st.records
    /\ out[1].st.current_sector = arg.st.current_sector

\* C20, as stated: a two-field row records its second field as the grand
\* total, raises the flag and ends the column, and only a row whose label is a
\* total-common-stocks label does so
OnlyCommonStocksRowSetsGrandTotal ==
    TwoFieldsRead =>
        /\ (IsIntegerText(arg.row[2]) \/ Strip(arg.row[2]) \in Placeholders) => RecordedAsGrandTotal
        /\ out[1].ctl = "break" => MatchesCommonStock(arg.row[1])
        /\ out[1].st.sector_totals # arg.st.sector_totals => MatchesCommonStock(arg.row[1])

\* C20, amended: a two-field row whose second field is an integer or a
\* placeholder records it as the grand total, raises the flag and ends the
\* column, whatever its first field; any other second field aborts the parse
AnyTwoFieldRowSetsGrandTotal ==
    TwoFieldsRead =>
        IF IsIntegerText(arg.row[2]) \/ Strip(arg.row[2]) \in Placeholders
        THEN RecordedAsGrandTotal
        ELSE out[1].ctl = "raise" /\ out[1].st = arg.st

\* the two-field row "Tech", "3" ended the column with a grand total of 3
OtherLabelSetGrandTotal ==
    /\ TwoFieldsRead
    /\ arg.row = << <<"Tech">>, <<"3">> >>
    /\ out[1].ctl = "break"
    /\ out[1].st.sector_totals[TotalCommonStocks] = IntVal(3)

----------------------------------------------------------------------------
(* The validation of the leading rows of a column on its own: arg is the      *)
(* place of the column in the document and its leading rows, out the verdict  *)

LeadingRows ==
    {<<>>, <<SecurityRow>>, <<NameRow>>, <<SecurityRow, CommonStocksRow>>,
     <<SecurityRow, TechRow>>, <<SecurityRow, Hold3Row>>, <<SecurityRow, Num3Row>>,
     <<NameRow, CommonStocksRow>>, <<SecurityRow, TotalRow>>}

InitHead ==
    /\ MachineInit
    /\ arg \in [page_i : 0..MaxPages - 1, col_i : 0..2, head : LeadingRows]
    /\ out = <<>>

ValidateHead ==
    /\ out = <<>>
    /\ out' = <<HeadValid(parser, arg.page_i, arg.col_i, arg.head)>>
    /\ UNCHANGED <<machine, arg>>

NextHead == ValidateHead
SpecHead == InitHead /\ [][NextHead]_vars

\* the second of the leading rows is a single-field "common stocks" label
SecondRowIsCommonStocksLabel(head) ==
    /\ Len(head) >= 2
    /\ Len(head[2]) = 1
    /\ \E i \in 1..Len(head[2][1]) - 2 :
          LowerText(SubSeq(head[2][1], i, i + 2)) = <<"common", " ", "stocks">>

\* C21: a column with a valid header row is accepted unless it is the first
\* column of the first page and its next row is not a single-field "common
\* stocks" label; no other column needs that label
LabelRequiredOnlyInFirstColumn ==
    (out # <<>> /\ HeaderRowValid(arg.head)) =>
        (out[1] <=> ((arg.page_i = 0 /\ arg.col_i = 0) => SecondRowIsCommonStocksLabel(arg.head)))

\* the rows were classified in document order: by page, then by column
ScannedInDocumentOrder ==
    \A j \in 1..Len(scanned) : \A k \in j + 1..Len(scanned) :
        \/ scanned[j].page < scanned[k].page
        \/ scanned[j].page = scanned[k].page /\ scanned[j].col <= scanned[k].col

\* C22: the returned holdings are the classified holding rows, one holding for
\* each row and in the order of the rows in the document
HoldingsInDocumentOrder ==
    pc = "returned" =>
        /\ ScannedInDocumentOrder
        /\ Len(result.HOLDINGS) = Cardinality(HoldingRows)
        /\ \A k \in HoldingRows :
              /\ HoldingOf(k).COMPANY_NAME = Strip(parse_row(scanned[k].row)[1])
              /\ HoldingOf(k).SHARES = CellValue(parse_row(scanned[k].row)[2])
              /\ HoldingOf(k).VALUE = CellValue(parse_row(scanned[k].row)[3])

\* a result whose holdings come from two pages, a null value before an integer one
ReturnedHoldingsOfTwoPages ==
    /\ pc = "returned"
    /\ Len(result.HOLDINGS) >= 2
    /\ result.HOLDINGS[1].VALUE = NoneVal
    /\ result.HOLDINGS[Len(result.HOLDINGS)].VALUE = IntVal(3)
    /\ \E j \in HoldingRows : \E k \in HoldingRows : scanned[j].page < scanned[k].page

----------------------------------------------------------------------------
(* extract_pages: the choice of the relevant pages among the candidate pages. *)
(* The text of a page is a sequence of phrases; arg is the texts of the       *)
(* candidate pages, out the indices of the pages returned                     *)

SUMMARY == "summary"
SOI == "schedule of investments"
R3K == "russell 3000 index fund"
TCS == "total common stocks"
TOTAL == "total"
COMMON_STOCKS == "common stocks"
NOTES == "notes to financial statements"
SEENOTES == "see notes to financial statements"

\* soi of the modern parser: .*schedule.*of.*investments.*russell.*3000
soi_new(text) == \E i \in 1..Len(text) : \E j \in i + 1..Len(text) : text[i] = SOI /\ text[j] = R3K
\* smr: .*summary.*schedule.*of.*investments.*
smr(text) == \E i \in 1..Len(text) : \E j \in i + 1..Len(text) : text[i] = SUMMARY /\ text[j] = SOI
\* nts: .*notes\s+to\s+financial\s+statements.*
nts(text) == \E i \in 1..Len(text) : text[i] \in {NOTES, SEENOTES}
\* stn: .*see.{0,7}notes\s+to\s+financial\s+statements.*
stn(text) == \E i \in 1..Len(text) : text[i] = SEENOTES
\* soi of the legacy parser: .*schedule\s+of\s+investments.*
soi_old(text) == \E i \in 1..Len(text) : text[i] = SOI
\* r3k: .*russell\s+3000\s+index\s+fund.*
r3k(text) == \E i \in 1..Len(text) : text[i] = R3K
\* cmn: .*total.*common.*stocks.*
cmn(text) ==
    \/ \E i \in 1..Len(text) : text[i] = TCS
    \/ \E i \in 1..Len(text) : \E j \in i + 1..Len(text) :
          text[i] \in {TOTAL, TCS} /\ text[j] \in {COMMON_STOCKS, TCS}

\* the modern loop over the pages: schedules only, no summary, no notes
Kept_new(text) == soi_new(text) /\ ~smr(text) /\ ~(nts(text) /\ ~stn(text))

RECURSIVE RelevantPages_new(_, _)
RelevantPages_new(cand, i) ==
    IF i > Len(cand) THEN <<>>
    ELSE (IF Kept_new(cand[i]) THEN <<i>> ELSE <<>>) \o RelevantPages_new(cand, i + 1)

\* a variant that starts to store at a summary page as well
StartsStoreAtSummary(text) == soi_old(text) /\ r3k(text)

\* if is_soi and is_r3k and not is_smr: store = True
StartsStore(text) == soi_old(text) /\ r3k(text) /\ ~smr(text)

\* the legacy loop over the pages: store from the first schedule page on, break
\* after the page of the total
RECURSIVE RelevantPages_old(_, _, _)
RelevantPages_old(cand, i, store) ==
    IF i > Len(cand) THEN <<>>
    ELSE LET st == store \/ StartsStore(cand[i])
         IN  (IF st THEN <<i>> ELSE <<>>)
                \o (IF st /\ cmn(cand[i]) THEN <<>> ELSE RelevantPages_old(cand, i + 1, st))

RelevantPages(p, cand) ==
    IF p = "new" THEN RelevantPages_new(cand, 1) ELSE RelevantPages_old(cand, 1, FALSE)

PageTexts ==
    {<<"x">>, <<SOI, R3K>>, <<R3K, SOI>>, <<SUMMARY, SOI, R3K>>, <<SOI, R3K, TCS>>,
     <<SUMMARY, SOI, R3K, TCS>>, <<SOI, R3K, NOTES>>, <<SOI, R3K, SEENOTES>>, <<TCS>>,
     <<TOTAL, "x", COMMON_STOCKS>>}

Candidates == UNION {[1..n -> PageTexts] : n \in 0..MaxPages + 2}

InitRel == MachineInit /\ arg \in Candidates /\ out = <<>>

SelectPages ==
    /\ out = <<>>
    /\ out' = <<RelevantPages(parser, arg)>>
    /\ UNCHANGED <<machine, arg>>

NextRel == SelectPages
SpecRel == InitRel /\ [][NextRel]_vars

\* C23: no page whose text matches the summary pattern is among the pages
\* returned, and the pages returned are in the order of the buffer
NoSummaryPageReturned ==
    out # <<>> =>
        /\ \A k \in 1..Len(out[1]) : out[1][k] \in 1..Len(arg) /\ ~smr(arg[out[1][k]])
        /\ \A k \in 1..Len(out[1]) - 1 : out[1][k] < out[1][k + 1]

\* the pages that name the schedule and the fund and are no summary page
SchedulePages ==
    {i \in 1..Len(arg) :
        /\ SOI \in Range(arg[i])
        /\ R3K \in Range(arg[i])
        /\ ~\E a \in 1..Len(arg[i]) : \E b \in a + 1..Len(arg[i]) :
                arg[i][a] = SUMMARY /\ arg[i][b] = SOI}

\* the run of pages from page s to page e
Run(s, e) == [k \in 1..e - s + 1 |-> s + k - 1]

\* the text holds the phrase "total common stocks"
HoldsTotalPhrase(text) == TCS \in Range(text)

\* the text holds the words total, common and stocks in this order, next to
\* each other or not
HoldsTotalWords(text) ==
    \/ HoldsTotalPhrase(text)
    \/ \E a \in 1..Len(text) : \E b \in a + 1..Len(text) :
          text[a] \in {TOTAL, TCS} /\ text[b] \in {COMMON_STOCKS, TCS}

\* the first page from the first schedule page on whose number is in S, or the
\* last page when there is none
FirstFromStart(S) ==
    LET from == {j \in S : j >= SetMin(SchedulePages)}
    IN  IF from = {} THEN Len(arg) ELSE SetMin(from)

\* C25, as stated: the pages the legacy segmenter returns are the run of
\* candidate pages from the first schedule page to the first page from there on
\* that holds the phrase "total common stocks", whatever the pages in between hold
LegacyRunEndsAtTotalPhrase ==
    (out # <<>> /\ parser = "old") =>
        IF SchedulePages = {} THEN out[1] = <<>>
        ELSE out[1] = Run(SetMin(SchedulePages),
                          FirstFromStart({j \in 1..Len(arg) : HoldsTotalPhrase(arg[j])}))

\* C25, amended: the run ends with the first page from the start on that holds
\* the words total, common and stocks in this order
LegacyRunEndsAtTotalWords ==
    (out # <<>> /\ parser = "old") =>
        IF SchedulePages = {} THEN out[1] = <<>>
        ELSE out[1] = Run(SetMin(SchedulePages),
                          FirstFromStart({j \in 1..Len(arg) : HoldsTotalWords(arg[j])}))

\* the legacy segmenter returned a run that leaves out a page before it and a
\* schedule page after it, and ends with a page that holds the words of the total apart
RunInsideTheCandidates ==
    /\ out # <<>>
    /\ parser = "old"
    /\ Len(arg) = 4
    /\ out[1] = <<2, 3>>
    /\ arg[3] = <<TOTAL, "x", COMMON_STOCKS>>
    /\ arg[4] = <<SOI, R3K>>

----------------------------------------------------------------------------
(* parse_header_info, version 2: the header table.  A cell of the table is its *)
(* text outside paragraphs and the texts of its paragraphs; arg is the cells   *)
(* of the table, out the header read from it                                   *)

HeaderValues == {TitleSchedule, NameIndexFund, <<"2010-03-31">>, <<" ">>}

HeaderCells ==
    {[direct |-> v, ps |-> <<>>] : v \in HeaderValues}
        \cup {[direct |-> <<>>, ps |-> <<v>>] : v \in HeaderValues}
        \cup {[direct |-> <<>>, ps |-> <<TitleSchedule, <<"2010-03-31">>, NameIndexFund>>]}

HeaderTables == UNION {[1..n -> HeaderCells] : n \in 0..MaxLen}

RECURSIVE Concat(_)
Concat(texts) == IF texts = <<>> THEN <<>> ELSE Head(texts) \o Concat(Tail(texts))

\* td.text: the text of the cell with the text of its paragraphs
CellText(cell) == cell.direct \o Concat(cell.ps)

\* nonempty_p(header): the paragraphs of the table that are not empty, in order
RECURSIVE nonempty_p(_)
nonempty_p(header) ==
    IF header = <<>> THEN <<>>
    ELSE SelectSeq(Head(header).ps, LAMBDA t : ~empty_tag(t)) \o nonempty_p(Tail(header))

\* nonempty_td(header): the cells of the table that are not empty, in order
nonempty_td(header) ==
    SelectSeq([i \in 1..Len(header) |-> CellText(header[i])], LAMBDA t : ~empty_tag(t))

\* a variant that asks for more than three paragraphs
MoreThanThreeParagraphs(values) == Len(values) > 3

\* if len(values) >= 3
ThreeParagraphs(values) == Len(values) >= 3

\* the branch version == 2 of parse_header_info and the checks after it
parse_header_v2(header) ==
    LET ps == nonempty_p(header)
        tds == nonempty_td(header)
    IN  IF ThreeParagraphs(ps)
        THEN [strategy |-> "p"] @@ parse_header_info_new(Page(ps[1], ps[3], ps[2], 0, TRUE))
        ELSE IF Len(tds) < 3 THEN [strategy |-> "td"] @@ NoHeader
        ELSE [strategy |-> "td"] @@ parse_header_info_new(Page(tds[1], tds[2], tds[3], 0, TRUE))

InitTab == MachineInit /\ arg \in HeaderTables /\ out = <<>>

ParseHeaderTable ==
    /\ out = <<>>
    /\ out' = <<parse_header_v2(arg)>>
    /\ UNCHANGED <<machine, arg>>

NextTab == ParseHeaderTable
SpecTab == InitTab /\ [][NextTab]_vars

\* the number of populated cells each strategy finds
PopulatedParagraphs ==
    Cardinality({<<i, j>> \in (1..Len(arg)) \X (1..3) :
                    j <= Len(arg[i].ps) /\ Strip(arg[i].ps[j]) # <<>>})
PopulatedCells == Cardinality({i \in 1..Len(arg) : Strip(CellText(arg[i])) # <<>>})

\* C24, as stated: a header is accepted only when exactly one of the two
\* strategies finds three populated cells or more, and is read with that one
HeaderOfExactlyOneStrategy ==
    (out # <<>> /\ out[1].ok) =>
        /\ (PopulatedParagraphs >= 3) # (PopulatedCells >= 3)
        /\ out[1].strategy = (IF PopulatedParagraphs >= 3 THEN "p" ELSE "td")

\* C24, amended: a header is read from the paragraphs when they are three or
\* more, whatever the cells are, and from the cells otherwise; it is not
\* accepted when neither strategy finds three
HeaderOfParagraphsFirst ==
    out # <<>> =>
        /\ out[1].strategy = (IF PopulatedParagraphs >= 3 THEN "p" ELSE "td")
        /\ out[1].ok => (PopulatedParagraphs >= 3 \/ PopulatedCells >= 3)
        /\ out[1].ok =>
              /\ out[1].ETF_NAME = LowerText(NameIndexFund)
              /\ out[1].REPORT_DATE = 20100331
        /\ (PopulatedParagraphs >= 3
              /\ nonempty_p(arg) = <<TitleSchedule, <<"2010-03-31">>, NameIndexFund>>) => out[1].ok
        /\ (PopulatedParagraphs < 3
              /\ nonempty_td(arg) = <<TitleSchedule, NameIndexFund, <<"2010-03-31">>>>) => out[1].ok

\* a header of three cells, a paragraph in each, was accepted: both strategies
\* find three
HeaderAcceptedWithBothStrategies ==
    /\ out # <<>>
    /\ out[1].ok
    /\ Len(arg) = 3
    /\ \A i \in 1..3 : Len(arg[i].ps) = 1
    /\ PopulatedParagraphs = 3
    /\ PopulatedCells = 3

----------------------------------------------------------------------------
(* parse_ncsr without replace_existing, run twice over the same index and the *)
(* same output directory.  arg is the index and the files the directory held  *)
(* before the first run; out is the directory, the position of the loop, the  *)
(* documents handed to a parser, and the directory as the first run left it   *)

HoldingA == [SECTOR |-> <<"Tech">>, COMPANY_NAME |-> <<"A">>, SHARES |-> IntVal(1), VALUE |-> IntVal(3)]
HoldingB == [SECTOR |-> <<"Fin">>, COMPANY_NAME |-> <<"B">>, SHARES |-> IntVal(1), VALUE |-> NoneVal]

\* what parse_filing does with a document: it raises, or returns a result
Raises == [ok |-> FALSE, value |-> NoResult]
Returns(holdings) ==
    [ok |-> TRUE,
     value |-> [ETF_NAME |-> LowerText(NameIndexFund), REPORT_DATE |-> 20100331,
                HOLDINGS |-> holdings]]

Filings ==
    [period : Periods, in_skip_files : BOOLEAN,
     parse : {Raises, Returns(<<>>), Returns(<<HoldingA, HoldingB>>)}]
FilingIndexes == UNION {[1..k -> Filings] : k \in 0..MaxDocs}

\* a file of the output directory: who wrote it (0: it was there before the
\* first run) and its rows
OldFile == [by |-> 0, rows |-> <<>>]
OutputDirs == {EmptyDict, DictSet(EmptyDict, "2010-03-31", OldFile)}

\* a variant that never finds the target
TargetNeverExists(files, row) == FALSE

\* os.path.exists(tgt), tgt = os.path.join(output_dir, row.PERIOD_OF_REPORT)
TargetExists(files, row) == row.period \in DOMAIN files

\* hold_df: a row for each holding, then the columns REPORT_DATE and ETF_NAME
HoldDf(hold) ==
    [k \in 1..Len(hold.HOLDINGS) |->
        [SECTOR |-> hold.HOLDINGS[k].SECTOR, COMPANY_NAME |-> hold.HOLDINGS[k].COMPANY_NAME,
         SHARES |-> hold.HOLDINGS[k].SHARES, VALUE |-> hold.HOLDINGS[k].VALUE,
         REPORT_DATE |-> hold.REPORT_DATE, ETF_NAME |-> hold.ETF_NAME]]

InitTwice ==
    /\ MachineInit
    /\ arg \in [idx : FilingIndexes, files : OutputDirs]
    /\ out = [files |-> arg.files, i |-> 0, pc |-> "loop", run |-> 1, parsed |-> {},
              first |-> EmptyDict]

\* one turn of the loop over idx.iterrows()
ParseNext ==
    /\ out.pc = "loop"
    /\ out.i < Len(arg.idx)
    /\ LET row == arg.idx[out.i + 1]
       IN  IF TargetExists(out.files, row) \/ row.in_skip_files
           THEN out' = [out EXCEPT !.i = @ + 1]
           ELSE IF ~row.parse.ok
           THEN out' = [out EXCEPT !.pc = "raised", !.parsed = @ \cup {<<out.run, out.i + 1>>}]
           ELSE out' = [out EXCEPT !.i = @ + 1,
                                   !.parsed = @ \cup {<<out.run, out.i + 1>>},
                                   !.files = DictSet(@, row.period,
                                                [by |-> out.i + 1, rows |-> HoldDf(row.parse.value)])]
    /\ UNCHANGED <<machine, arg>>

\* return None
ReturnRun ==
    /\ out.pc = "loop"
    /\ out.i = Len(arg.idx)
    /\ out' = [out EXCEPT !.pc = "returned"]
    /\ UNCHANGED <<machine, arg>>

\* parse_ncsr is called again: replace_existing is false and output_dir exists
RunAgain ==
    /\ out.pc \in {"returned", "raised"}
    /\ out.run = 1
    /\ out' = [out EXCEPT !.pc = "loop", !.i = 0, !.run = 2, !.first = out.files]
    /\ UNCHANGED <<machine, arg>>

NextTwice == ParseNext \/ ReturnRun \/ RunAgain
SpecTwice == InitTwice /\ [][NextTwice]_vars

\* C26: a document whose output file exists is not parsed and its file is not
\* overwritten, a document of SKIP_FILES is never parsed or written, every file
\* written holds one row for each holding of its document with the fund name
\* and the report date of the filing, and the second run leaves the files of
\* the first as they were
BatchKeepsExistingOutputs ==
    /\ \A period \in DOMAIN arg.files :
          /\ period \in DOMAIN out.files
          /\ out.files[period] = arg.files[period]
          /\ \A e \in out.parsed : arg.idx[e[2]].period # period
    /\ \A e \in out.parsed : ~arg.idx[e[2]].in_skip_files
    /\ \A period \in DOMAIN out.files :
          LET f == out.files[period]
          IN  f.by # 0 =>
                /\ ~arg.idx[f.by].in_skip_files
                /\ arg.idx[f.by].period = period
                /\ Len(f.rows) = Len(arg.idx[f.by].parse.value.HOLDINGS)
                /\ \A k \in 1..Len(f.rows) :
                      /\ f.rows[k].ETF_NAME = arg.idx[f.by].parse.value.ETF_NAME
                      /\ f.rows[k].REPORT_DATE = arg.idx[f.by].parse.value.REPORT_DATE
                      /\ f.rows[k].COMPANY_NAME =
                            arg.idx[f.by].parse.value.HOLDINGS[k].COMPANY_NAME
    /\ out.run = 2 =>
          /\ out.files = out.first
          /\ \A e \in out.parsed : e[1] = 2 => ~arg.idx[e[2]].parse.ok

\* the second run returned over a directory that held a file before the first
\* run and a file the first run wrote, with a document of SKIP_FILES in the index
SecondRunReturned ==
    /\ out.run = 2
    /\ out.pc = "returned"
    /\ arg.files # EmptyDict
    /\ \E period \in DOMAIN out.files : Len(out.files[period].rows) = 2
    /\ \E i \in 1..Len(arg.idx) : arg.idx[i].in_skip_files

====
